---------------------------- MODULE Spec2Model ----------------------------
(***************************************************************************)
(* FocusTimer (by7750/FocusTimer): the countdown state machines and the    *)
(* session recording that hangs off them.                                  *)
(*                                                                         *)
(*   Spec       ui/timer_widget.py  TimerWidget (the countdown the         *)
(*              application runs), ui/main_window.py  MainWindow's         *)
(*              on_timer_started / on_timer_finished slots, and the        *)
(*              study_sessions table of config/database.py.                *)
(*   SpecTimer  core/timer.py  FocusTimer.                                 *)
(*   SpecLive   core/timer.py  FocusTimer with the QTimer delivering       *)
(*              its timeouts (weak fairness of the tick).                  *)
(*   SpecReentrant  core/timer.py  FocusTimer with a slot of               *)
(*              timer_finished that calls start.                           *)
(*   SpecManager  core/timer.py  TimerManager with its FocusTimer and      *)
(*              the study_sessions rows it creates and ends.               *)
(*   SpecDb     config/database.py  Database: the session operations and   *)
(*              the recompute of daily_stats and timer_type_stats, for     *)
(*              study sessions on two dates.                               *)
(*   SpecStats  config/database.py  Database: the same recompute for       *)
(*              sessions of every timer type on one date.                  *)
(*   SpecTodo   config/database.py  Database: the todo_items operations    *)
(*              and the link of a session to a todo.                       *)
(*   SpecDelete config/database.py  Database: study and rest sessions      *)
(*              started, finalized and deleted on one date.                *)
(*                                                                         *)
(* Qt delivers a signal to a directly connected slot synchronously, so an  *)
(* emit and the slot it runs are one step of the emitting operation.       *)
(* Wall-clock time is the integer `now` (seconds).  A Python None in a     *)
(* time or duration field is written None (-1): every real value is >= 0.  *)
(* The modal dialogs, sounds and repaint calls of the handlers touch none  *)
(* of the modelled fields and are left out; so are                         *)
(* TimerWidget.pause_time / total_pause_duration, which the widget writes  *)
(* but whose values reach no branch condition and no signal argument, the  *)
(* notes, created_at and updated_at columns, and the date, completed and   *)
(* priority columns of todo_items.  completion_rate, a float in the code,  *)
(* is an exact fraction <<numerator, denominator>> in lowest terms.        *)
(***************************************************************************)
EXTENDS Integers, Naturals, Sequences, FiniteSets, TLC

\* ------------------------------------------------------------------ bounds
\* Wall-clock horizon of a behaviour, in seconds.
MaxTime == 2
\* Number of timer_started events (runs of the widget) in a behaviour.
MaxRuns == 2
\* Durations configured for the timer types (settings "timer.types"), scaled
\* down from 45 and 15 minutes.
StudyDuration == 2
RestDuration == 1
CustomDuration == 1
\* Durations FocusTimer.start is called with (0..MaxDuration, and -1), and
\* the seconds add_time is called with (-MaxDelta..MaxDelta).
MaxDuration == 2
MaxDelta == 2
\* Length of a calendar day in seconds, scaled down from 86400.
SecondsPerDay == 2
\* Session rows and todo items ever inserted in a behaviour of the
\* Database specifications and of SpecManager.
MaxSessions == 3
MaxTodos == 1

\* --------------------------------------------------------------- encodings
None == -1
NoType == "None"

\* settings "timer.types": the combo box lists them in this order; "custom"
\* stands for a user-defined type added with Settings.add_timer_type.
timer_types == <<"study", "rest", "custom">>

TimerTypeIds == {timer_types[i] : i \in 1..Len(timer_types)}

\* Settings.get_timer_type_by_id(type_id).get('duration', 0)
get_timer_type_duration(type_id) ==
    CASE type_id = "study" -> StudyDuration
      [] type_id = "rest" -> RestDuration
      [] type_id = "custom" -> CustomDuration
      [] OTHER -> 0

\* datetime.date() of a timestamp
DateOf(t) == t \div SecondsPerDay

Max(a, b) == IF a >= b THEN a ELSE b

\* A type id that is not in settings "timer.types" (and so not in the combo
\* box), as quick_start_study passes once the user has removed "study".
UnknownTypeId == "unknown"

VARIABLES
    now,            \* datetime.now(), in seconds
    auto_switch,    \* settings "timer.auto_switch"
    widget,         \* TimerWidget fields
    window,         \* MainWindow pending-session fields
    study_sessions, \* rows of the study_sessions table, in insertion order
    last_rowid,     \* AUTOINCREMENT counter of study_sessions
    run,            \* history: the widget run opened by the last timer_started
    timer,          \* FocusTimer fields
    signals,        \* the signals the last FocusTimer call emitted, in order
    last_call,      \* the last FocusTimer call and what it returned
    hist,           \* history: the FocusTimer run opened by the last start
    daily_stats,    \* rows of the daily_stats table
    timer_type_stats, \* rows of the timer_type_stats table
    todo_items,     \* rows of the todo_items table
    last_todo_id,   \* AUTOINCREMENT counter of todo_items
    last_update     \* history: the target_date of _update_daily_stats in
                    \* the last Database operation, None if it made no call

vars == <<now, auto_switch, widget, window, study_sessions, last_rowid,
          run, timer, signals, last_call, hist, daily_stats,
          timer_type_stats, todo_items, last_todo_id, last_update>>

\* The variables of Spec and those of SpecTimer.
widget_vars == <<auto_switch, widget, window, study_sessions, last_rowid,
                 run>>
timer_vars == <<timer, signals, last_call, hist>>
\* The two aggregate tables with the history of their recompute, and the
\* todo table.
stats_vars == <<daily_stats, timer_type_stats, last_update>>
todo_vars == <<todo_items, last_todo_id>>


\* ------------------------------------------------- config/database.py (rows)
\* Contents of todo items.
Contents == {"a", "b"}

\* SELECT content FROM todo_items WHERE id = todo_id, as start_session,
\* update_session_todo and add_session_direct use it: "" without a todo_id
\* or without such an item.
todo_content_of(todo_id) ==
    IF todo_id # None /\ \E item \in todo_items : item.id = todo_id
    THEN (CHOOSE item \in todo_items : item.id = todo_id).content
    ELSE ""

\* Database.start_session: INSERT of a row with end_time, actual_duration
\* NULL and completed at its column default; raises (and inserts nothing)
\* when a NOT NULL column would be NULL.  Result: [ok, rows, rowid, id].
start_session(rows, rowid, timer_type, planned_duration, start_time, todo_id) ==
    LET st == IF start_time = None THEN now ELSE start_time
    IN  IF timer_type = NoType \/ planned_duration = None
        THEN [ok |-> FALSE, rows |-> rows, rowid |-> rowid, id |-> None]
        ELSE [ok |-> TRUE,
              rows |-> Append(rows, [id |-> rowid + 1,
                                     date |-> DateOf(st),
                                     start_time |-> st,
                                     end_time |-> None,
                                     timer_type |-> timer_type,
                                     planned_duration |-> planned_duration,
                                     actual_duration |-> None,
                                     completed |-> FALSE,
                                     todo_id |-> todo_id,
                                     todo_content |->
                                         todo_content_of(todo_id)]),
              rowid |-> rowid + 1,
              id |-> rowid + 1]

\* Database.end_session: UPDATE of end_time, actual_duration and completed
\* of the row with this id (end_time defaults to now; actual_duration, when
\* None, to end_time - start_time).
end_session(rows, session_id, completed, actual_duration) ==
    [i \in 1..Len(rows) |->
        IF rows[i].id = session_id
        THEN [rows[i] EXCEPT
                !.end_time = now,
                !.actual_duration = IF actual_duration = None
                                    THEN now - rows[i].start_time
                                    ELSE actual_duration,
                !.completed = completed]
        ELSE rows[i]]

\* Database.end_session called at the time end_time (its datetime.now()),
\* for a caller whose call is made after the clock has moved on.
end_session_at(rows, session_id, completed, actual_duration, end_time) ==
    [i \in 1..Len(rows) |->
        IF rows[i].id = session_id
        THEN [rows[i] EXCEPT
                !.end_time = end_time,
                !.actual_duration = IF actual_duration = None
                                    THEN end_time - rows[i].start_time
                                    ELSE actual_duration,
                !.completed = completed]
        ELSE rows[i]]

\* The date end_session passes to _update_daily_stats: that of the row's
\* start_time.
end_session_date(rows, session_id) ==
    LET i == CHOOSE i \in 1..Len(rows) : rows[i].id = session_id
    IN  DateOf(rows[i].start_time)

\* Whether the table has a row with this id (end_session and delete_session
\* raise ValueError without one).
has_session(rows, session_id) ==
    \E i \in 1..Len(rows) : rows[i].id = session_id

\* Database.update_session_todo: UPDATE of todo_id and todo_content, the
\* content copied from the todo item as it is now.
update_session_todo(rows, session_id, todo_id) ==
    [i \in 1..Len(rows) |->
        IF rows[i].id = session_id
        THEN [rows[i] EXCEPT !.todo_id = todo_id,
                             !.todo_content = todo_content_of(todo_id)]
        ELSE rows[i]]

\* Database.delete_session, the DELETE and the date it recomputes: the
\* row's date column.
delete_session(rows, session_id) ==
    LET keep(r) == r.id # session_id
    IN  SelectSeq(rows, keep)

delete_session_date(rows, session_id) ==
    LET i == CHOOSE i \in 1..Len(rows) : rows[i].id = session_id
    IN  rows[i].date

\* The start_datetime of add_session_direct: a start_time with only a time
\* of day (full = FALSE, t seconds after midnight) is put on date_str; a
\* full datetime (full = TRUE, t) is taken as it is.
start_datetime(date_str, start_time) ==
    IF start_time.full
    THEN start_time.t
    ELSE date_str * SecondsPerDay + start_time.t

\* Database.add_session_direct with id = None: INSERT of a finalized row
\* under the date date_str; duration stands for int(duration_minutes * 60),
\* used when actual_duration is None.  Result: [rows, rowid, id].
add_session_direct(rows, rowid, date_str, start_time, duration, todo_id, timer_type, planned_duration, actual_duration, completed, todo_content) ==
    LET actual == IF actual_duration = None THEN duration
                  ELSE actual_duration
        planned == IF planned_duration = None THEN actual
                   ELSE planned_duration
        content == IF todo_id # None /\ todo_content = ""
                   THEN todo_content_of(todo_id) ELSE todo_content
        st == start_datetime(date_str, start_time)
    IN  [rows |-> Append(rows, [id |-> rowid + 1,
                                date |-> date_str,
                                start_time |-> st,
                                end_time |-> st + actual,
                                timer_type |-> timer_type,
                                planned_duration |-> planned,
                                actual_duration |-> actual,
                                completed |-> completed,
                                todo_id |-> todo_id,
                                todo_content |-> content]),
         rowid |-> rowid + 1,
         id |-> rowid + 1]

\* Database.add_todo_item, update_todo_item (content given) and
\* delete_todo_item: they write todo_items only.
add_todo_item(items, id, content) ==
    items \cup {[id |-> id, content |-> content]}

update_todo_item(items, todo_id, content) ==
    {IF item.id = todo_id THEN [item EXCEPT !.content = content] ELSE item :
        item \in items}

delete_todo_item(items, todo_id) ==
    {item \in items : item.id # todo_id}

\* Exact fractions n/d (d > 0) in lowest terms, for AVG, += and / on the
\* completion rates.
RECURSIVE GCD(_, _)
GCD(a, b) == IF b = 0 THEN a ELSE GCD(b, a % b)

Frac(n, d) == LET g == GCD(n, d) IN <<n \div g, d \div g>>

FracAdd(p, q) == Frac(p[1] * q[2] + q[1] * p[2], p[2] * q[2])

FracDiv(p, k) == Frac(p[1], p[2] * k)

RECURSIVE Sum(_)
Sum(s) == IF s = <<>> THEN 0 ELSE Head(s) + Sum(Tail(s))

RECURSIVE FracSum(_)
FracSum(s) == IF s = <<>> THEN <<0, 1>> ELSE FracAdd(Head(s), FracSum(Tail(s)))

\* The SELECT of _update_daily_stats: one record for each timer type that
\* has a row on target_date with actual_duration set.
type_stats(rows, target_date) ==
    LET group(tt) ==
            LET in_group(r) == /\ r.date = target_date
                               /\ r.actual_duration # None
                               /\ r.timer_type = tt
            IN  SelectSeq(rows, in_group)
        stat(tt) ==
            LET g == group(tt)
                done == Sum([i \in 1..Len(g) |->
                               IF g[i].completed THEN 1 ELSE 0])
            IN  [timer_type |-> tt,
                 session_count |-> Len(g),
                 completed_time |->
                     Sum([i \in 1..Len(g) |->
                            IF g[i].completed THEN g[i].actual_duration
                            ELSE 0]),
                 total_time |->
                     Sum([i \in 1..Len(g) |-> g[i].actual_duration]),
                 completion_rate |->
                     IF Len(g) = 0 THEN <<0, 1>> ELSE Frac(done, Len(g))]
        present(st) == st.session_count > 0
    IN  SelectSeq([i \in 1..Len(timer_types) |-> stat(timer_types[i])],
                  present)

\* INSERT without the REPLACE of the row of that date: a variant to test
\* against.
insert_only(stats, row) == stats \cup {row}

\* INSERT OR REPLACE INTO daily_stats: date is UNIQUE.
insert_or_replace(stats, row) ==
    {st \in stats : st.date # row.date} \cup {row}

\* The daily row with total_time (uncompleted sessions included) in place
\* of completed_time: a variant to test against.
daily_row_total_time(rows, target_date) ==
    LET ts == type_stats(rows, target_date)
        n == Len(ts)
    IN  [date |-> target_date,
         total_study_time |->
             Sum([i \in 1..n |-> IF ts[i].timer_type = "study"
                                 THEN ts[i].total_time ELSE 0]),
         total_rest_time |->
             Sum([i \in 1..n |-> IF ts[i].timer_type = "rest"
                                 THEN ts[i].total_time ELSE 0]),
         session_count |-> Sum([i \in 1..n |-> ts[i].session_count]),
         completion_rate |->
             IF n > 0
             THEN FracDiv(FracSum([i \in 1..n |-> ts[i].completion_rate]), n)
             ELSE <<0, 1>>]

\* The daily row with the completion rate weighted by the size of the
\* groups (completed sessions over all sessions): a variant to test against.
daily_row_weighted(rows, target_date) ==
    LET ts == type_stats(rows, target_date)
        n == Len(ts)
        count == Sum([i \in 1..n |-> ts[i].session_count])
    IN  [date |-> target_date,
         total_study_time |->
             Sum([i \in 1..n |-> IF ts[i].timer_type = "study"
                                 THEN ts[i].completed_time ELSE 0]),
         total_rest_time |->
             Sum([i \in 1..n |-> IF ts[i].timer_type = "rest"
                                 THEN ts[i].completed_time ELSE 0]),
         session_count |-> count,
         completion_rate |->
             IF n > 0
             THEN FracDiv(FracSum([i \in 1..n |->
                                     Frac(ts[i].completion_rate[1]
                                              * ts[i].session_count,
                                          ts[i].completion_rate[2])]),
                          count)
             ELSE <<0, 1>>]

\* The daily_stats row _update_daily_stats computes for target_date.
daily_row(rows, target_date) ==
    LET ts == type_stats(rows, target_date)
        n == Len(ts)
    IN  [date |-> target_date,
         total_study_time |->
             Sum([i \in 1..n |-> IF ts[i].timer_type = "study"
                                 THEN ts[i].completed_time ELSE 0]),
         total_rest_time |->
             Sum([i \in 1..n |-> IF ts[i].timer_type = "rest"
                                 THEN ts[i].completed_time ELSE 0]),
         session_count |-> Sum([i \in 1..n |-> ts[i].session_count]),
         completion_rate |->
             IF n > 0
             THEN FracDiv(FracSum([i \in 1..n |-> ts[i].completion_rate]), n)
             ELSE <<0, 1>>]

\* Database._update_daily_stats, the daily_stats table after it.
update_daily_stats(rows, stats, target_date) ==
    insert_or_replace(stats, daily_row(rows, target_date))

\* Database._update_daily_stats, the timer_type_stats table after it: one
\* INSERT OR REPLACE (UNIQUE(timer_type, date)) for each group found.
update_timer_type_stats(rows, tstats, target_date) ==
    LET ts == type_stats(rows, target_date)
        found == {ts[i].timer_type : i \in 1..Len(ts)}
    IN  {st \in tstats : ~(st.date = target_date /\ st.timer_type \in found)}
        \cup {[timer_type |-> ts[i].timer_type, date |-> target_date,
               usage_count |-> ts[i].session_count,
               total_time |-> ts[i].completed_time] : i \in 1..Len(ts)}

\* Where a store call of on_timer_finished can raise.
StoreFailures == {"none", "start_session", "end_session"}

\* ------------------------------------------------------ ui/main_window.py
\* MainWindow.__init__: no pending session.
NoPending ==
    [current_timer_type |-> NoType,
     current_planned_duration |-> None,
     current_timer_start_time |-> None]

\* on_timer_started as it would be with the row created at the Start event
\* (what TimerManager.start_timer does): a variant to test against.
on_timer_started_eager(timer_type, planned_duration, start_time) ==
    LET made == start_session(study_sessions, last_rowid, timer_type,
                              planned_duration, start_time, None)
    IN  [window |-> [current_timer_type |-> timer_type,
                     current_planned_duration |-> planned_duration,
                     current_timer_start_time |-> start_time],
         rows |-> made.rows,
         rowid |-> made.rowid]

\* MainWindow.on_timer_started: the window and the store after the slot; it
\* remembers the run and makes no store call.
on_timer_started(timer_type, planned_duration, start_time) ==
    [window |-> [current_timer_type |-> timer_type,
                 current_planned_duration |-> planned_duration,
                 current_timer_start_time |-> start_time],
     rows |-> study_sessions,
     rowid |-> last_rowid]

\* The completed flag MainWindow.on_timer_finished passes to end_session.
finished_completed_flag(auto_completed) == TRUE

\* on_timer_finished issuing start_session a second time when a store call
\* raised: a variant to test against.
on_timer_finished_retrying(timer_type, duration, auto_completed, fail) ==
    LET same == [window |-> window, rows |-> study_sessions,
                 rowid |-> last_rowid, creates |-> 0, finalizes |-> 0,
                 row_id |-> None, raised |-> FALSE]
        made == start_session(study_sessions, last_rowid,
                              window.current_timer_type,
                              window.current_planned_duration,
                              window.current_timer_start_time, None)
    IN  IF ~(timer_type = "study" /\ duration > 0)
        THEN same
        ELSE IF fail # "none" \/ ~made.ok
        THEN [same EXCEPT !.creates = 2, !.raised = TRUE]
        ELSE [window |-> NoPending,
              rows |-> end_session(made.rows, made.id, TRUE, duration),
              rowid |-> made.rowid,
              creates |-> 1, finalizes |-> 1, row_id |-> made.id,
              raised |-> FALSE]

\* MainWindow.on_timer_finished, with `fail` the store call that raises.
\* Result: the new window, rows and rowid, and what was issued.
on_timer_finished(timer_type, duration, auto_completed, fail) ==
    LET same == [window |-> window, rows |-> study_sessions,
                 rowid |-> last_rowid, creates |-> 0, finalizes |-> 0,
                 row_id |-> None, raised |-> FALSE]
        made == start_session(study_sessions, last_rowid,
                              window.current_timer_type,
                              window.current_planned_duration,
                              window.current_timer_start_time, None)
    IN  IF ~(timer_type = "study" /\ duration > 0)
        THEN same
        ELSE IF fail = "start_session" \/ ~made.ok
        THEN [same EXCEPT !.creates = 1, !.raised = TRUE]
        ELSE IF fail = "end_session"
        THEN [same EXCEPT !.rows = made.rows, !.rowid = made.rowid,
                          !.creates = 1, !.finalizes = 1,
                          !.row_id = made.id, !.raised = TRUE]
        ELSE [window |-> NoPending,
              rows |-> end_session(made.rows, made.id,
                                   finished_completed_flag(auto_completed),
                                   duration),
              rowid |-> made.rowid,
              creates |-> 1, finalizes |-> 1, row_id |-> made.id,
              raised |-> FALSE]


\* ----------------------------------------------------- ui/timer_widget.py
\* TimerWidget.set_timer_type: a type the settings know sets the type and
\* both counters; an unknown one changes nothing.
set_timer_type(w, type_id) ==
    IF type_id \in TimerTypeIds
    THEN [w EXCEPT !.current_timer_type = type_id,
                   !.total_seconds = get_timer_type_duration(type_id),
                   !.remaining_seconds = get_timer_type_duration(type_id)]
    ELSE w

\* TimerWidget._on_timer_type_changed: the slot of the combo box's
\* currentIndexChanged; it leaves start_time and pause_time as they are.
on_timer_type_changed(w, type_id) ==
    [set_timer_type(w, type_id) EXCEPT !.is_running = FALSE,
                                       !.is_paused = FALSE,
                                       !.timer_active = FALSE]

\* QComboBox.setCurrentIndex as start_timer(type_id) uses it: the slot runs
\* only when the index changes.
select_type(w, type_id) ==
    IF type_id \in TimerTypeIds /\ type_id # w.current_timer_type
    THEN on_timer_type_changed(w, type_id)
    ELSE w

\* The reset of the time records that ends stop_timer, reset_timer and the
\* completion branch of _update_time.
clear_time_records(w) ==
    [w EXCEPT !.start_time = None]

\* reset_timer without the reset of the time records: a variant to test
\* against.
reset_timer_keeping_records(w) ==
    [w EXCEPT !.remaining_seconds = w.total_seconds,
              !.is_running = FALSE,
              !.is_paused = FALSE,
              !.timer_active = FALSE]

\* TimerWidget.reset_timer
reset_timer_fields(w) ==
    clear_time_records([w EXCEPT !.remaining_seconds = w.total_seconds,
                                 !.is_running = FALSE,
                                 !.is_paused = FALSE,
                                 !.timer_active = FALSE])

\* TimerWidget.stop_timer, the part before the signal.
stop_timer_fields(w) ==
    [w EXCEPT !.is_running = FALSE, !.is_paused = FALSE,
              !.timer_active = FALSE]

\* elapsed_time as stop_timer and _update_time compute it.
elapsed_time(w) == w.total_seconds - w.remaining_seconds

\* The emit condition of stop_timer reading is_running, which stop_timer
\* has cleared by then: a variant to test against.
stop_emits_while_running(w) ==
    /\ w.is_running
    /\ w.current_timer_type = "study"
    /\ elapsed_time(w) > 0
    /\ w.start_time # None

\* The condition under which stop_timer emits timer_finished.
stop_emits(w) ==
    w.current_timer_type = "study" /\ elapsed_time(w) > 0 /\ w.start_time # None

\* TimerWidget._switch_to_next_timer_type: study <-> rest through the combo
\* box, any other type is reset.
switch_to_next_timer_type(w) ==
    CASE w.current_timer_type = "study" ->
            [select_type(w, "rest") EXCEPT !.is_running = FALSE,
                                           !.is_paused = FALSE,
                                           !.timer_active = FALSE]
      [] w.current_timer_type = "rest" ->
            [select_type(w, "study") EXCEPT !.is_running = FALSE,
                                            !.is_paused = FALSE,
                                            !.timer_active = FALSE]
      [] OTHER -> reset_timer_fields(w)


\* TimerWidget.start_timer, the widget's fields after the call: an optional
\* type switch, then (only with time left) running again; only a first
\* start (start_time is None) stamps start_time.
start_timer_fields(w, type_id) ==
    LET w1 == select_type(w, type_id)
        w2 == [w1 EXCEPT !.is_running = TRUE, !.is_paused = FALSE,
                         !.timer_active = TRUE]
    IN  IF w1.remaining_seconds > 0
        THEN IF w2.start_time = None
             THEN [w2 EXCEPT !.start_time = now]
             ELSE w2
        ELSE w1

\* Whether start_timer emits timer_started.
start_emits(w, type_id) ==
    LET w1 == select_type(w, type_id)
    IN  w1.remaining_seconds > 0 /\ w1.start_time = None

\* pause_timer that leaves the QTimer running: a variant to test against.
pause_timer_fields_timer_running(w) ==
    [w EXCEPT !.is_running = FALSE, !.is_paused = TRUE]

\* TimerWidget.pause_timer
pause_timer_fields(w) ==
    [w EXCEPT !.is_running = FALSE, !.is_paused = TRUE,
              !.timer_active = FALSE]

\* TimerWidget.__init__ with the default settings (current type "study").
InitWidget ==
    [total_seconds |-> StudyDuration,
     remaining_seconds |-> StudyDuration,
     is_running |-> FALSE,
     is_paused |-> FALSE,
     current_timer_type |-> "study",
     start_time |-> None,
     timer_active |-> FALSE]

\* ----------------------------------------------------------- core/timer.py
\* FocusTimer.__init__
InitTimer ==
    [state |-> "idle",
     timer_type |-> "",
     total_duration |-> 0,
     remaining_time |-> 0,
     elapsed_time |-> 0,
     session_id |-> None,
     start_time |-> None,
     pause_time |-> None,
     total_pause_duration |-> 0,
     qt_active |-> FALSE]

\* The signals of FocusTimer.
state_changed(new_state) == [signal |-> "state_changed", args |-> <<new_state>>]
time_updated(remaining, total) ==
    [signal |-> "time_updated", args |-> <<remaining, total>>]
timer_finished(timer_type, actual_duration, completed) ==
    [signal |-> "timer_finished",
     args |-> <<timer_type, actual_duration, completed>>]
\* FocusTimer.progress, as the fraction elapsed / total (0 / 1 when total = 0)
progress(t) ==
    IF t.total_duration = 0
    THEN <<0, 1>>
    ELSE <<t.elapsed_time, t.total_duration>>
progress_updated(t) == [signal |-> "progress_updated", args |-> progress(t)]

\* FocusTimer._emit_time_signals
emit_time_signals(t) ==
    <<time_updated(t.remaining_time, t.total_duration), progress_updated(t)>>

\* FocusTimer._set_state: the signals it emits (none when the state stays).
set_state_signals(t, new_state) ==
    IF t.state # new_state THEN <<state_changed(new_state)>> ELSE <<>>

\* _reset_state leaving the pause records: a variant to test against.
reset_state_keeping_pause(t) ==
    [t EXCEPT !.timer_type = "", !.total_duration = 0, !.remaining_time = 0,
              !.elapsed_time = 0, !.session_id = None, !.start_time = None]

\* FocusTimer._reset_state
reset_state(t) ==
    [t EXCEPT !.timer_type = "", !.total_duration = 0, !.remaining_time = 0,
              !.elapsed_time = 0, !.session_id = None, !.start_time = None,
              !.pause_time = None, !.total_pause_duration = 0]

\* start refusing a running timer only: a variant to test against.
start_refused_running_only(t) == t.state = "running"

\* Whether FocusTimer.start refuses the call.
start_refused(t) == t.state \in {"running", "paused"}

\* start that leaves the counted time of the last run: a variant to test
\* against.
start_fields_keeping_elapsed(t, timer_type, duration, session_id) ==
    [t EXCEPT !.timer_type = timer_type, !.total_duration = duration,
              !.remaining_time = duration,
              !.session_id = session_id, !.start_time = now,
              !.pause_time = None, !.total_pause_duration = 0,
              !.state = "running", !.qt_active = TRUE]

\* FocusTimer.start, the fields after an accepted call.
start_fields(t, timer_type, duration, session_id) ==
    [t EXCEPT !.timer_type = timer_type, !.total_duration = duration,
              !.remaining_time = duration, !.elapsed_time = 0,
              !.session_id = session_id, !.start_time = now,
              !.pause_time = None, !.total_pause_duration = 0,
              !.state = "running", !.qt_active = TRUE]

\* pause that leaves the QTimer running: a variant to test against.
pause_fields_timer_running(t) ==
    [t EXCEPT !.pause_time = now, !.state = "paused"]

\* FocusTimer.pause, the fields after an accepted call.
pause_fields(t) ==
    [t EXCEPT !.qt_active = FALSE, !.pause_time = now, !.state = "paused"]

\* resume taking the moment of the resume as the run's start_time: a
\* variant to test against.
resume_fields_restarting(t) ==
    LET t1 == IF t.pause_time # None
              THEN [t EXCEPT !.total_pause_duration = @ + (now - t.pause_time),
                             !.pause_time = None]
              ELSE t
    IN  [t1 EXCEPT !.qt_active = TRUE, !.state = "running",
                   !.start_time = now]

\* FocusTimer.resume, the fields after an accepted call.
resume_fields(t) ==
    LET t1 == IF t.pause_time # None
              THEN [t EXCEPT !.total_pause_duration = @ + (now - t.pause_time),
                             !.pause_time = None]
              ELSE t
    IN  [t1 EXCEPT !.qt_active = TRUE, !.state = "running"]

\* stop that leaves an open pause out of total_pause_duration: a variant to
\* test against.
stop_fields_without_fold(t, completed) ==
    [t EXCEPT !.qt_active = FALSE,
              !.state = IF completed THEN "finished" ELSE "idle"]

\* FocusTimer.stop up to the timer_finished signal: the QTimer stopped, an
\* open pause folded into total_pause_duration, the new state set.
stop_fields(t, completed) ==
    LET t1 == IF t.state = "paused" /\ t.pause_time # None
              THEN [t EXCEPT !.total_pause_duration = @ + (now - t.pause_time)]
              ELSE t
    IN  [t1 EXCEPT !.qt_active = FALSE,
                   !.state = IF completed THEN "finished" ELSE "idle"]

\* stop emitting timer_finished after the fields were reset: a variant to
\* test against.
stop_signals_after_reset(t, completed) ==
    LET after == IF completed THEN t ELSE reset_state(t)
    IN  set_state_signals(t, IF completed THEN "finished" ELSE "idle")
            \o <<timer_finished(after.timer_type, after.elapsed_time,
                                completed)>>

\* FocusTimer.stop, the signals it emits.
stop_signals(t, completed) ==
    set_state_signals(t, IF completed THEN "finished" ELSE "idle")
        \o <<timer_finished(t.timer_type, t.elapsed_time, completed)>>

\* FocusTimer.stop, the fields when it returns.
stop_result(t, completed) ==
    IF completed
    THEN stop_fields(t, completed)
    ELSE reset_state(stop_fields(t, completed))

\* add_time without the clamp at zero: a variant to test against.
add_time_fields_unclamped(t, seconds) ==
    LET new_remaining == t.remaining_time + seconds
        time_diff == new_remaining - t.remaining_time
        total == t.total_duration + time_diff
    IN  [t EXCEPT !.remaining_time = new_remaining,
                  !.total_duration = total,
                  !.elapsed_time = total - new_remaining]

\* FocusTimer.add_time, the fields after an accepted call.
add_time_fields(t, seconds) ==
    LET new_remaining == Max(0, t.remaining_time + seconds)
        time_diff == new_remaining - t.remaining_time
        total == t.total_duration + time_diff
    IN  [t EXCEPT !.remaining_time = new_remaining,
                  !.total_duration = total,
                  !.elapsed_time = total - new_remaining]

\* A tick that counts remaining_time down and leaves elapsed_time: a
\* variant to test against.
tick_remaining_only(t) ==
    [t EXCEPT !.remaining_time = @ - 1]

\* FocusTimer._on_timer_tick, the two counters after a tick while running.
tick_fields(t) ==
    [t EXCEPT !.remaining_time = @ - 1, !.elapsed_time = @ + 1]

\* ------------------------------------------------------- history records
\* run: the run opened by the last timer_started signal -- its number, the
\* signal's arguments, the ticks delivered since, whether it was paused,
\* whether the timer type was switched under it, whether it was abandoned
\* (reset while running or paused); the rows added and the start_session /
\* end_session calls issued since the signal; and, once it has ended, how
\* ("stop": stop_timer, "zero": the countdown ran out), the widget's timer
\* type at that moment, whether timer_finished was emitted and whether a
\* store call raised.  The details are kept while the widget holds a
\* start_time and in the state right after it drops it; the next step
\* forgets all but id, abandoned and the three counters.
NoRun ==
    [id |-> 0, type |-> NoType, planned |-> None, start_time |-> None,
     ticks |-> 0, paused |-> FALSE, switched |-> FALSE, abandoned |-> FALSE,
     rows |-> 0, creates |-> 0, finalizes |-> 0,
     ended |-> "", end_type |-> NoType, signalled |-> FALSE,
     raised |-> FALSE]

Forget(r) ==
    IF widget.start_time = None
    THEN [NoRun EXCEPT !.id = r.id, !.abandoned = r.abandoned,
                       !.rows = r.rows, !.creates = r.creates,
                       !.finalizes = r.finalizes]
    ELSE r

\* What Handled is given when no signal was emitted.
NoSignal ==
    [window |-> window, rows |-> study_sessions, rowid |-> last_rowid,
     creates |-> 0, finalizes |-> 0, row_id |-> None, raised |-> FALSE]

\* The store, the window and the history after the widget w ended run r
\* (how = "" when no run was open) and the timer_finished signal, if one
\* was emitted (finished), was handled with result `out`.
Handled(out, finished, r, how, w) ==
    /\ window' = out.window
    /\ study_sessions' = out.rows
    /\ last_rowid' = out.rowid
    /\ run' = [Forget(r) EXCEPT
                  !.rows = @ + Len(out.rows) - Len(study_sessions),
                  !.creates = @ + out.creates,
                  !.finalizes = @ + out.finalizes,
                  !.ended = how,
                  !.end_type = IF how = "" THEN NoType
                               ELSE w.current_timer_type,
                  !.signalled = finished,
                  !.raised = out.raised]
    /\ IF out.finalizes = 1 /\ ~out.raised
       THEN LET target_date == end_session_date(out.rows, out.row_id)
            IN  /\ daily_stats' = update_daily_stats(out.rows, daily_stats,
                                                     target_date)
                /\ timer_type_stats' =
                       update_timer_type_stats(out.rows, timer_type_stats,
                                               target_date)
                /\ last_update' = target_date
       ELSE IF out.creates > 0
       THEN /\ UNCHANGED <<daily_stats, timer_type_stats>>
            /\ last_update' = None
       ELSE UNCHANGED stats_vars

\* hist: the run opened by the last accepted start -- the duration it was
\* started with, the ticks processed while Running, the seconds of
\* wall-clock time spent Paused, whether anything but ticks was called since
\* the start (pause, add_time, stop or reset), and whether an earlier call of
\* the run emitted timer_finished.  A call made in Idle starts from NoHist.
NoHist ==
    [d |-> None, ticks |-> 0, paused |-> 0, only_ticks |-> FALSE,
     finished_before |-> FALSE]

\* ---------------------------------------------------------------- actions
Init ==
    /\ now = 0
    /\ auto_switch \in BOOLEAN
    /\ widget = InitWidget
    /\ window = NoPending
    /\ study_sessions = <<>>
    /\ last_rowid = 0
    /\ run = NoRun
    /\ timer = InitTimer
    /\ signals = <<>>
    /\ last_call = [op |-> "init", result |-> TRUE]
    /\ hist = NoHist
    /\ daily_stats = {}
    /\ timer_type_stats = {}
    /\ todo_items = {}
    /\ last_todo_id = 0
    /\ last_update = None

\* TimerWidget.start_timer(type_id): the start button (no type) and
\* MainWindow.quick_start_study / quick_start_rest.
start_timer(type_id) ==
    /\ run.id < MaxRuns \/ widget.start_time # None
    /\ widget' = start_timer_fields(widget, type_id)
    /\ IF start_emits(widget, type_id)
       THEN LET out == on_timer_started(widget'.current_timer_type,
                                        widget'.total_seconds,
                                        widget'.start_time)
            IN  /\ window' = out.window
                /\ study_sessions' = out.rows
                /\ last_rowid' = out.rowid
                /\ run' = [NoRun EXCEPT
                              !.id = run.id + 1,
                              !.type = widget'.current_timer_type,
                              !.planned = widget'.total_seconds,
                              !.start_time = widget'.start_time,
                              !.rows = Len(out.rows) - Len(study_sessions)]
       ELSE /\ run' = [Forget(run) EXCEPT !.switched =
                          @ \/ (widget.start_time # None
                                /\ widget'.current_timer_type
                                       # widget.current_timer_type)]
            /\ UNCHANGED <<window, study_sessions, last_rowid>>
    /\ UNCHANGED <<now, auto_switch>>
    /\ UNCHANGED <<timer_vars, stats_vars, todo_vars>>

\* TimerWidget.pause_timer
pause_timer ==
    /\ widget.is_running
    /\ widget' = pause_timer_fields(widget)
    /\ run' = [run EXCEPT !.paused = TRUE]
    /\ UNCHANGED <<now, auto_switch, window, study_sessions, last_rowid>>
    /\ UNCHANGED <<timer_vars, stats_vars, todo_vars>>

\* TimerWidget.stop_timer, with the slot of timer_finished; `fail` is the
\* store call that raises in it.
stop_timer(fail) ==
    LET w == stop_timer_fields(widget)
        finished == stop_emits(w)
        out == IF finished
               THEN on_timer_finished(w.current_timer_type,
                                      elapsed_time(w), FALSE, fail)
               ELSE NoSignal
    IN  /\ widget' = clear_time_records(w)
        /\ Handled(out, finished, run,
                   IF widget.start_time # None THEN "stop" ELSE "", w)
        /\ UNCHANGED <<now, auto_switch>>
        /\ UNCHANGED <<timer_vars, todo_vars>>

\* TimerWidget.reset_timer
reset_timer ==
    /\ widget' = reset_timer_fields(widget)
    /\ run' = [Forget(run) EXCEPT
                  !.abandoned = @ \/ widget.is_running \/ widget.is_paused]
    /\ UNCHANGED <<now, auto_switch, window, study_sessions, last_rowid>>
    /\ UNCHANGED <<timer_vars, stats_vars, todo_vars>>

\* The user picks another entry of the combo box.
timer_type_changed(type_id) ==
    /\ type_id # widget.current_timer_type
    /\ widget' = on_timer_type_changed(widget, type_id)
    /\ run' = [Forget(run) EXCEPT !.switched = widget.start_time # None]
    /\ UNCHANGED <<now, auto_switch, window, study_sessions, last_rowid>>
    /\ UNCHANGED <<timer_vars, stats_vars, todo_vars>>

\* TimerWidget._update_time: the QTimer's timeout, one second later; `fail`
\* is the store call that raises in the slot of timer_finished.
update_time(fail) ==
    /\ widget.timer_active
    /\ now < MaxTime
    /\ now' = now + 1
    /\ IF widget.remaining_seconds > 0
       THEN LET w1 == [widget EXCEPT !.remaining_seconds = @ - 1]
                r1 == [run EXCEPT !.ticks = @ + 1]
            IN  IF w1.remaining_seconds = 0
                THEN LET w2 == stop_timer_fields(w1)
                         out == on_timer_finished(w2.current_timer_type,
                                                  w2.total_seconds, TRUE,
                                                  fail)
                         w3 == clear_time_records(w2)
                     IN  /\ widget' = IF auto_switch
                                      THEN switch_to_next_timer_type(w3)
                                      ELSE w3
                         /\ Handled(out, TRUE, r1, "zero", w2)
                ELSE /\ widget' = w1
                     /\ run' = r1
                     /\ UNCHANGED <<window, study_sessions, last_rowid>>
                     /\ UNCHANGED stats_vars
       ELSE UNCHANGED <<widget, window, study_sessions, last_rowid, run,
                        stats_vars>>
    /\ UNCHANGED auto_switch
    /\ UNCHANGED <<timer_vars, todo_vars>>

\* A second of wall-clock time with the QTimer stopped.
TimePasses ==
    /\ ~widget.timer_active
    /\ now < MaxTime
    /\ now' = now + 1
    /\ run' = Forget(run)
    /\ UNCHANGED <<auto_switch, widget, window, study_sessions, last_rowid>>
    /\ UNCHANGED <<timer_vars, stats_vars, todo_vars>>

Next ==
    \/ \E type_id \in {NoType, "study", "rest", UnknownTypeId} :
            start_timer(type_id)
    \/ pause_timer
    \/ \E fail \in StoreFailures : stop_timer(fail)
    \/ reset_timer
    \/ \E type_id \in TimerTypeIds : timer_type_changed(type_id)
    \/ \E fail \in StoreFailures : update_time(fail)
    \/ TimePasses

Spec == Init /\ [][Next]_vars

\* ------------------------------------------------- actions of FocusTimer
TimerTypes == {"study", "rest"}
Durations == {-1} \cup (0..MaxDuration)
Deltas == (0 - MaxDelta)..MaxDelta

\* Whether a sequence of signals holds a timer_finished.
HasFinished(sigs) ==
    \E i \in 1..Len(sigs) : sigs[i].signal = "timer_finished"

\* The history after a call op that leaves the fields t and returns result.
Recorded(op, t, result) ==
    LET h == IF timer.state = "idle" THEN NoHist ELSE hist
    IN  IF op = "start" /\ result
        THEN [NoHist EXCEPT !.d = t.total_duration, !.only_ticks = TRUE]
        ELSE [h EXCEPT
                !.ticks = IF op \in {"tick", "late_tick"}
                             /\ timer.state = "running"
                          THEN @ + 1 ELSE @,
                !.only_ticks = @ /\ op \notin {"pause", "add_time", "stop",
                                                "reset"},
                !.finished_before = @ \/ HasFinished(signals)]

\* A FocusTimer call that changes the fields to t, emits sigs and returns
\* result.
Called(op, t, sigs, result) ==
    /\ timer' = t
    /\ signals' = sigs
    /\ last_call' = [op |-> op, result |-> result]
    /\ hist' = Recorded(op, t, result)
    /\ UNCHANGED <<widget_vars, stats_vars, todo_vars>>

\* FocusTimer.start
start(timer_type, duration) ==
    /\ UNCHANGED now
    /\ IF start_refused(timer)
       THEN Called("start", timer, <<>>, FALSE)
       ELSE LET t == start_fields(timer, timer_type, duration, None)
            IN  Called("start", t,
                       set_state_signals(timer, "running")
                           \o emit_time_signals(t),
                       TRUE)

\* pause without the check of the state: a variant to test against.
pause_unguarded ==
    /\ UNCHANGED now
    /\ Called("pause", pause_fields(timer),
              set_state_signals(timer, "paused"), TRUE)

\* FocusTimer.pause
pause ==
    /\ UNCHANGED now
    /\ IF timer.state # "running"
       THEN Called("pause", timer, <<>>, FALSE)
       ELSE Called("pause", pause_fields(timer),
                   set_state_signals(timer, "paused"), TRUE)

\* resume without the check of the state: a variant to test against.
resume_unguarded ==
    /\ UNCHANGED now
    /\ Called("resume", resume_fields(timer),
              set_state_signals(timer, "running"), TRUE)

\* FocusTimer.resume
resume ==
    /\ UNCHANGED now
    /\ IF timer.state # "paused"
       THEN Called("resume", timer, <<>>, FALSE)
       ELSE Called("resume", resume_fields(timer),
                   set_state_signals(timer, "running"), TRUE)

\* FocusTimer.stop
stop(completed) ==
    /\ UNCHANGED now
    /\ IF timer.state = "idle"
       THEN Called("stop", timer, <<>>, FALSE)
       ELSE Called("stop", stop_result(timer, completed),
                   stop_signals(timer, completed), TRUE)

\* FocusTimer.reset (it returns nothing)
reset ==
    /\ UNCHANGED now
    /\ Called("reset",
              [reset_state(timer) EXCEPT !.qt_active = FALSE,
                                         !.state = "idle"],
              set_state_signals(timer, "idle"), TRUE)

\* FocusTimer.add_time
add_time(seconds) ==
    /\ UNCHANGED now
    /\ timer.remaining_time + seconds <= MaxDuration
    /\ IF timer.state \notin {"running", "paused"}
       THEN Called("add_time", timer, <<>>, FALSE)
       ELSE LET t == add_time_fields(timer, seconds)
            IN  Called("add_time", t, emit_time_signals(t), TRUE)

\* The tick handler without the check of the state: a variant to test
\* against.
on_timer_tick_unguarded(op) ==
    LET t == tick_fields(timer)
    IN  IF t.remaining_time <= 0
        THEN Called(op, stop_result(t, TRUE),
                    emit_time_signals(t) \o stop_signals(t, TRUE), TRUE)
        ELSE Called(op, t, emit_time_signals(t), TRUE)

\* The tick handler finishing one tick late (remaining_time < 0): a variant
\* to test against.
on_timer_tick_finishing_late(op) ==
    IF timer.state # "running"
    THEN Called(op, timer, <<>>, TRUE)
    ELSE LET t == tick_fields(timer)
         IN  IF t.remaining_time < 0
             THEN Called(op, stop_result(t, TRUE),
                         emit_time_signals(t) \o stop_signals(t, TRUE), TRUE)
             ELSE Called(op, t, emit_time_signals(t), TRUE)

\* The tick handler finishing only on the tick that brings remaining_time
\* to exactly 0: a variant to test against.
on_timer_tick_finishing_at_zero(op) ==
    IF timer.state # "running"
    THEN Called(op, timer, <<>>, TRUE)
    ELSE LET t == tick_fields(timer)
         IN  IF t.remaining_time = 0
             THEN Called(op, stop_result(t, TRUE),
                         emit_time_signals(t) \o stop_signals(t, TRUE), TRUE)
             ELSE Called(op, t, emit_time_signals(t), TRUE)

\* FocusTimer._on_timer_tick: nothing unless running; otherwise one second
\* counted, and stop(completed=True) when the countdown is used up.
on_timer_tick_called(op) ==
    IF timer.state # "running"
    THEN Called(op, timer, <<>>, TRUE)
    ELSE LET t == tick_fields(timer)
         IN  IF t.remaining_time <= 0
             THEN Called(op, stop_result(t, TRUE),
                         emit_time_signals(t) \o stop_signals(t, TRUE), TRUE)
             ELSE Called(op, t, emit_time_signals(t), TRUE)

\* The QTimer's timeout, one second after the last one.
on_timer_tick ==
    /\ timer.qt_active
    /\ now < MaxTime
    /\ now' = now + 1
    /\ on_timer_tick_called("tick")

\* A timeout delivered after the QTimer was stopped: the handler runs in
\* whatever state the timer is in.
late_tick ==
    /\ ~timer.qt_active
    /\ UNCHANGED now
    /\ on_timer_tick_called("late_tick")

\* A second of wall-clock time with FocusTimer's QTimer stopped.
TimerTimePasses ==
    /\ ~timer.qt_active
    /\ now < MaxTime
    /\ now' = now + 1
    /\ hist' = [hist EXCEPT !.paused = IF timer.state = "paused"
                                       THEN @ + 1 ELSE @]
    /\ UNCHANGED <<widget_vars, stats_vars, todo_vars>>
    /\ UNCHANGED <<timer, signals, last_call>>

NextTimer ==
    \/ \E timer_type \in TimerTypes, duration \in Durations :
            start(timer_type, duration)
    \/ pause
    \/ resume
    \/ \E completed \in BOOLEAN : stop(completed)
    \/ reset
    \/ \E seconds \in Deltas : add_time(seconds)
    \/ on_timer_tick
    \/ late_tick
    \/ TimerTimePasses

SpecTimer == Init /\ [][NextTimer]_vars

\* FocusTimer with its QTimer delivering the ticks it owes: a timeout is
\* delivered as long as the QTimer is active (weak fairness of
\* on_timer_tick).  So that the horizon of the clock never holds a tick
\* back, a call or a second of pause is taken only if the countdown it
\* leaves still fits before MaxTime.
FitsBeforeMaxTime ==
    timer.state \in {"running", "paused"}
        => now + Max(timer.remaining_time, 1) <= MaxTime

NextLive ==
    \/ on_timer_tick
    \/ \E timer_type \in TimerTypes, duration \in Durations :
            start(timer_type, duration) /\ FitsBeforeMaxTime'
    \/ pause /\ FitsBeforeMaxTime'
    \/ resume /\ FitsBeforeMaxTime'
    \/ \E completed \in BOOLEAN : stop(completed) /\ FitsBeforeMaxTime'
    \/ reset /\ FitsBeforeMaxTime'
    \/ \E seconds \in Deltas : add_time(seconds) /\ FitsBeforeMaxTime'
    \/ late_tick /\ FitsBeforeMaxTime'
    \/ TimerTimePasses /\ FitsBeforeMaxTime'

SpecLive == Init /\ [][NextLive]_vars /\ WF_vars(on_timer_tick)

\* FocusTimer.stop(completed) with a listener of timer_finished that calls
\* start(timer_type, duration) from inside the emit: the stop sets the new
\* state and emits, the listener's start is accepted there (the state is
\* Idle or Finished by then) and emits its own signals, and the rest of
\* stop (_reset_state unless completed) runs after it.
stop_with_start_in_listener(completed, timer_type, duration) ==
    /\ UNCHANGED now
    /\ timer.state # "idle"
    /\ LET t1 == stop_fields(timer, completed)
           t2 == start_fields(t1, timer_type, duration, None)
       IN  /\ timer' = IF completed THEN t2 ELSE reset_state(t2)
           /\ signals' = stop_signals(timer, completed)
                             \o set_state_signals(t1, "running")
                             \o emit_time_signals(t2)
    /\ last_call' = [op |-> "stop", result |-> TRUE]
    /\ hist' = [NoHist EXCEPT !.d = duration, !.only_ticks = TRUE]
    /\ UNCHANGED <<widget_vars, stats_vars, todo_vars>>

\* FocusTimer with such a listener connected.
NextReentrant ==
    \/ NextTimer
    \/ \E completed \in BOOLEAN, timer_type \in TimerTypes,
          duration \in Durations :
            stop_with_start_in_listener(completed, timer_type, duration)

SpecReentrant == Init /\ [][NextReentrant]_vars

\* --------------------------------------------------- actions of Database
\* The calendar dates of the behaviour, and the start_time strings
\* add_session_direct is called with: full datetimes, as _export_to_json
\* writes them.
Dates == 0..DateOf(MaxTime)
StartTimeStrings == {[full |-> TRUE, t |-> now]}

\* The variables no Database operation touches.
app_vars == <<auto_switch, widget, window, run, timer_vars>>

\* _update_daily_stats(target_date) on the rows `rows`.
Recomputed(rows, target_date) ==
    /\ daily_stats' = update_daily_stats(rows, daily_stats, target_date)
    /\ timer_type_stats' =
           update_timer_type_stats(rows, timer_type_stats, target_date)
    /\ last_update' = target_date

\* A Database operation that returns or raises without a call of
\* _update_daily_stats.
NotRecomputed ==
    /\ UNCHANGED <<daily_stats, timer_type_stats>>
    /\ last_update' = None

\* Database.start_session(timer_type, planned_duration, None, todo_id)
StartSession(timer_type, todo_id) ==
    /\ last_rowid < MaxSessions
    /\ LET made == start_session(study_sessions, last_rowid, timer_type,
                                 get_timer_type_duration(timer_type), None,
                                 todo_id)
       IN  /\ study_sessions' = made.rows
           /\ last_rowid' = made.rowid
    /\ NotRecomputed
    /\ UNCHANGED <<now, todo_vars, app_vars>>

\* Database.end_session(session_id, completed, "", actual_duration); it
\* raises, changing nothing, when no row has this id.
EndSession(session_id, completed, actual_duration) ==
    /\ IF has_session(study_sessions, session_id)
       THEN /\ study_sessions' = end_session(study_sessions, session_id,
                                             completed, actual_duration)
            /\ Recomputed(study_sessions',
                          end_session_date(study_sessions, session_id))
       ELSE UNCHANGED study_sessions /\ NotRecomputed
    /\ UNCHANGED <<now, last_rowid, todo_vars, app_vars>>

\* Database.delete_session(session_id); it raises, changing nothing, when
\* no row has this id.
DeleteSession(session_id) ==
    /\ IF has_session(study_sessions, session_id)
       THEN /\ study_sessions' = delete_session(study_sessions, session_id)
            /\ Recomputed(study_sessions',
                          delete_session_date(study_sessions, session_id))
       ELSE UNCHANGED study_sessions /\ NotRecomputed
    /\ UNCHANGED <<now, last_rowid, todo_vars, app_vars>>

\* Database.add_session_direct(date_str, start_time, ...), as the import of
\* a data file calls it.
AddSessionDirect(date_str, start_time, timer_type, actual_duration, completed) ==
    /\ last_rowid < MaxSessions
    /\ LET made == add_session_direct(study_sessions, last_rowid, date_str,
                                      start_time, actual_duration, None,
                                      timer_type, None, actual_duration,
                                      completed, "")
       IN  /\ study_sessions' = made.rows
           /\ last_rowid' = made.rowid
           /\ Recomputed(made.rows, date_str)
    /\ UNCHANGED <<now, todo_vars, app_vars>>

\* Database.update_session_todo(session_id, todo_id)
UpdateSessionTodo(session_id, todo_id) ==
    /\ study_sessions' = update_session_todo(study_sessions, session_id,
                                             todo_id)
    /\ NotRecomputed
    /\ UNCHANGED <<now, last_rowid, todo_vars, app_vars>>

\* Database.add_todo_item(content)
AddTodoItem(content) ==
    /\ last_todo_id < MaxTodos
    /\ todo_items' = add_todo_item(todo_items, last_todo_id + 1, content)
    /\ last_todo_id' = last_todo_id + 1
    /\ NotRecomputed
    /\ UNCHANGED <<now, study_sessions, last_rowid, app_vars>>

\* Database.update_todo_item(todo_id, content=content)
UpdateTodoItem(todo_id, content) ==
    /\ todo_items' = update_todo_item(todo_items, todo_id, content)
    /\ NotRecomputed
    /\ UNCHANGED <<now, study_sessions, last_rowid, last_todo_id, app_vars>>

\* A delete_todo_item that also clears the link of the sessions of the
\* item, as a foreign key with ON DELETE SET NULL would.
DeleteTodoItem_cascading(todo_id) ==
    /\ todo_items' = delete_todo_item(todo_items, todo_id)
    /\ study_sessions' =
          [i \in 1..Len(study_sessions) |->
              IF study_sessions[i].todo_id = todo_id
              THEN [study_sessions[i] EXCEPT !.todo_id = None,
                                             !.todo_content = ""]
              ELSE study_sessions[i]]
    /\ NotRecomputed
    /\ UNCHANGED <<now, last_rowid, last_todo_id, app_vars>>

\* Database.delete_todo_item(todo_id)
DeleteTodoItem(todo_id) ==
    /\ todo_items' = delete_todo_item(todo_items, todo_id)
    /\ NotRecomputed
    /\ UNCHANGED <<now, study_sessions, last_rowid, last_todo_id, app_vars>>

\* The session operations on study sessions, called within one second of
\* wall-clock time: start_session without a todo, end_session with the
\* duration of a study run, delete_session, and add_session_direct with
\* its defaults (type "study", completed) under either date.
NextDb ==
    \/ StartSession("study", None)
    \/ \E session_id \in 1..last_rowid, completed \in BOOLEAN :
            EndSession(session_id, completed, StudyDuration)
    \/ \E session_id \in 1..last_rowid : DeleteSession(session_id)
    \/ \E date_str \in Dates, start_time \in StartTimeStrings :
            AddSessionDirect(date_str, start_time, "study", RestDuration,
                             TRUE)

SpecDb == Init /\ [][NextDb]_vars

\* Sessions of every timer type started and finalized on one date: a
\* session ends completed after StudyDuration or RestDuration seconds, or
\* stopped early after RestDuration seconds.
EndInputs ==
    {[completed |-> TRUE, actual_duration |-> StudyDuration],
     [completed |-> TRUE, actual_duration |-> RestDuration],
     [completed |-> FALSE, actual_duration |-> RestDuration]}

NextStats ==
    \/ \E timer_type \in TimerTypeIds : StartSession(timer_type, None)
    \/ \E session_id \in 1..last_rowid, input \in EndInputs :
            EndSession(session_id, input.completed, input.actual_duration)

SpecStats == Init /\ [][NextStats]_vars

\* Study and rest sessions started, finalized and deleted on one date.
NextDelete ==
    \/ \E timer_type \in {"study", "rest"} : StartSession(timer_type, None)
    \/ \E session_id \in 1..last_rowid, input \in EndInputs :
            EndSession(session_id, input.completed, input.actual_duration)
    \/ \E session_id \in 1..last_rowid : DeleteSession(session_id)

SpecDelete == Init /\ [][NextDelete]_vars

\* The todo operations and the two that link a session to a todo.
NextTodo ==
    \/ \E todo_id \in {None} \cup (1..last_todo_id) :
            StartSession("study", todo_id)
    \/ \E session_id \in 1..last_rowid,
          todo_id \in {None} \cup (1..last_todo_id) :
            UpdateSessionTodo(session_id, todo_id)
    \/ \E content \in Contents : AddTodoItem(content)
    \/ \E todo_id \in 1..last_todo_id, content \in Contents :
            UpdateTodoItem(todo_id, content)
    \/ \E todo_id \in 1..last_todo_id : DeleteTodoItem(todo_id)

SpecTodo == Init /\ [][NextTodo]_vars

\* --------------------------------------------- actions of TimerManager
\* A FocusTimer call made through TimerManager: the fields, the signals and
\* the history of the call.
Emitted(op, t, sigs, result) ==
    /\ timer' = t
    /\ signals' = sigs
    /\ last_call' = [op |-> op, result |-> result]
    /\ hist' = Recorded(op, t, result)

\* The variables TimerManager and its FocusTimer leave alone.
manager_frame == <<auto_switch, widget, window, run, todo_vars>>

\* TimerManager._on_timer_finished, the slot of FocusTimer.timer_finished,
\* run at the time end_time with the timer's session_id as it is during the
\* emit: end_session(session_id, completed, notes="") when the timer holds
\* a session_id, its exception logged; the duration of the signal is not
\* passed on.
manager_on_timer_finished(session_id, completed, end_time) ==
    IF session_id # None /\ has_session(study_sessions, session_id)
    THEN /\ study_sessions' = end_session_at(study_sessions, session_id,
                                             completed, None, end_time)
         /\ Recomputed(study_sessions',
                       end_session_date(study_sessions, session_id))
    ELSE UNCHANGED study_sessions /\ NotRecomputed

\* TimerManager.start_timer: start_session first, then FocusTimer.start
\* with the new row's id.
manager_start_timer(timer_type, duration) ==
    /\ last_rowid < MaxSessions
    /\ UNCHANGED now
    /\ LET made == start_session(study_sessions, last_rowid, timer_type,
                                 duration, None, None)
           t == start_fields(timer, timer_type, duration, made.id)
       IN  /\ study_sessions' = made.rows
           /\ last_rowid' = made.rowid
           /\ IF start_refused(timer)
              THEN Emitted("start", timer, <<>>, FALSE)
              ELSE Emitted("start", t,
                           set_state_signals(timer, "running")
                               \o emit_time_signals(t),
                           TRUE)
    /\ NotRecomputed
    /\ UNCHANGED manager_frame

\* TimerManager.pause_timer
manager_pause_timer ==
    /\ UNCHANGED now
    /\ IF timer.state # "running"
       THEN Emitted("pause", timer, <<>>, FALSE)
       ELSE Emitted("pause", pause_fields(timer),
                    set_state_signals(timer, "paused"), TRUE)
    /\ NotRecomputed
    /\ UNCHANGED <<study_sessions, last_rowid, manager_frame>>

\* TimerManager.resume_timer
manager_resume_timer ==
    /\ UNCHANGED now
    /\ IF timer.state # "paused"
       THEN Emitted("resume", timer, <<>>, FALSE)
       ELSE Emitted("resume", resume_fields(timer),
                    set_state_signals(timer, "running"), TRUE)
    /\ NotRecomputed
    /\ UNCHANGED <<study_sessions, last_rowid, manager_frame>>

\* TimerManager.stop_timer(completed): FocusTimer.stop with the slot of
\* timer_finished run inside it.
manager_stop_timer(completed) ==
    /\ UNCHANGED now
    /\ IF timer.state = "idle"
       THEN /\ Emitted("stop", timer, <<>>, FALSE)
            /\ UNCHANGED study_sessions
            /\ NotRecomputed
       ELSE /\ Emitted("stop", stop_result(timer, completed),
                       stop_signals(timer, completed), TRUE)
            /\ manager_on_timer_finished(timer.session_id, completed, now)
    /\ UNCHANGED <<last_rowid, manager_frame>>

\* The QTimer's timeout under TimerManager, one second after the last one:
\* _on_timer_tick, with the slot of timer_finished run inside the
\* stop(completed=True) of the tick that uses up the countdown.
manager_on_timer_tick ==
    /\ timer.qt_active
    /\ now < MaxTime
    /\ now' = now + 1
    /\ IF timer.state # "running"
       THEN /\ Emitted("tick", timer, <<>>, TRUE)
            /\ UNCHANGED study_sessions
            /\ NotRecomputed
       ELSE LET t == tick_fields(timer)
            IN  IF t.remaining_time <= 0
                THEN /\ Emitted("tick", stop_result(t, TRUE),
                                emit_time_signals(t)
                                    \o stop_signals(t, TRUE),
                                TRUE)
                     /\ manager_on_timer_finished(t.session_id, TRUE,
                                                  now + 1)
                ELSE /\ Emitted("tick", t, emit_time_signals(t), TRUE)
                     /\ UNCHANGED study_sessions
                     /\ NotRecomputed
    /\ UNCHANGED <<last_rowid, manager_frame>>

\* A second of wall-clock time with the QTimer stopped.
ManagerTimePasses ==
    /\ ~timer.qt_active
    /\ now < MaxTime
    /\ now' = now + 1
    /\ hist' = [hist EXCEPT !.paused = IF timer.state = "paused"
                                       THEN @ + 1 ELSE @]
    /\ NotRecomputed
    /\ UNCHANGED <<timer, signals, last_call>>
    /\ UNCHANGED <<study_sessions, last_rowid, manager_frame>>

\* TimerManager with its FocusTimer and the store, started with the
\* configured durations of the study and rest types.
NextManager ==
    \/ \E timer_type \in TimerTypes :
            manager_start_timer(timer_type,
                                get_timer_type_duration(timer_type))
    \/ manager_pause_timer
    \/ manager_resume_timer
    \/ \E completed \in BOOLEAN : manager_stop_timer(completed)
    \/ manager_on_timer_tick
    \/ ManagerTimePasses

SpecManager == Init /\ [][NextManager]_vars

\* ------------------------------------------------------------- properties
\* The row the store received last.
LastRow == study_sessions[Len(study_sessions)]

\* The widget's run has just ended (stop_timer on an open run, or the
\* countdown ran out): the state right after that step.
RunEnded == run.ended # ""

\* C1: in every state FocusTimer reaches through start, pause, resume, stop,
\* reset, add_time and ticks, elapsed_time + remaining_time equals
\* total_duration.
C1_TimeConservation ==
    timer.elapsed_time + timer.remaining_time = timer.total_duration

\* C1 witness: a timer that has ticked and then had time added.
C1_Witness ==
    /\ last_call = [op |-> "add_time", result |-> TRUE]
    /\ timer.elapsed_time > 0
    /\ timer.remaining_time > 0
    /\ timer.total_duration > MaxDuration

\* C10: FocusTimer.start called while Running or Paused returns False,
\* leaves every field as it was and emits no signal.
C10_StartRefused ==
    [][(last_call'.op = "start" /\ timer.state \in {"running", "paused"})
          => (/\ last_call'.result = FALSE
              /\ timer' = timer
              /\ signals' = <<>>)]_vars

\* C10 witness: a refused start of a paused timer that has counted time.
C10_Witness ==
    /\ last_call = [op |-> "start", result |-> FALSE]
    /\ timer.state = "paused"
    /\ timer.elapsed_time > 0

\* C2: a study run that is started, paused and resumed any number of times
\* and then ended, by stop_timer or by the countdown reaching zero, after at
\* least one tick and with the store calls succeeding, has issued exactly
\* one start_session and one end_session call and added exactly one row; no
\* run ever issues or adds more than one.
C2_ExactlyOnceRecording ==
    /\ run.creates <= 1 /\ run.finalizes <= 1 /\ run.rows <= 1
    /\ (RunEnded /\ run.type = "study" /\ ~run.switched /\ run.ticks > 0
            /\ ~run.raised)
          => (/\ run.creates = 1
              /\ run.finalizes = 1
              /\ run.rows = 1
              /\ LastRow.end_time # None)

\* C2 witness: a study run that was paused, ticked and was stopped by hand,
\* with its one row written.
C2_Witness ==
    /\ run.ended = "stop"
    /\ run.type = "study" /\ ~run.switched
    /\ run.paused /\ run.ticks > 0
    /\ run.creates = 1 /\ run.finalizes = 1 /\ run.rows = 1

\* C3: the completed flag of a row recorded from a run is true exactly when
\* the run ended by the countdown reaching zero; a run stopped by hand is
\* recorded with completed = false.
C3_CompletedIffReachedZero ==
    (RunEnded /\ run.rows = 1 /\ ~run.raised)
        => (LastRow.completed <=> run.ended = "zero")

\* C4: the actual_duration of a row recorded from a run is the number of
\* ticks delivered between that run's timer_started and its timer_finished,
\* also when an earlier run was stopped by hand and no reset came between.
C4_ActualDurationCountsOwnTicks ==
    (RunEnded /\ run.rows = 1 /\ ~run.raised /\ ~run.switched)
        => LastRow.actual_duration = run.ticks

\* C5: the slot of timer_started records the pending type, planned duration
\* and start time and leaves the store as it is, and while a run is open
\* (from its timer_started to its end) the store holds no row of it.
C5_DeferredCreation ==
    /\ [](widget.start_time # None => run.rows = 0 /\ run.creates = 0)
    /\ [][run'.id # run.id
            => (/\ study_sessions' = study_sessions
                /\ last_rowid' = last_rowid
                /\ window' =
                     [current_timer_type |-> widget'.current_timer_type,
                      current_planned_duration |-> widget'.total_seconds,
                      current_timer_start_time |-> now])]_vars

\* C5 witness: a second run, open, paused after a tick, with the first run's
\* row in the store and none of its own.
C5_Witness ==
    /\ widget.start_time # None
    /\ run.id = 2 /\ run.paused /\ run.ticks > 0
    /\ run.rows = 0
    /\ Len(study_sessions) = 1
    /\ window.current_timer_type = "study"

\* C6: a run that ends without a tick of its own (stopped right after its
\* start), or with a timer type other than "study", issues no start_session
\* or end_session call and adds no row, however it ends.
C6_NothingForEmptyOrNonStudyRun ==
    (RunEnded /\ ~run.switched /\ ~run.raised
        /\ (run.ticks = 0 \/ run.end_type # "study"))
        => (run.creates = 0 /\ run.finalizes = 0 /\ run.rows = 0)

\* C7: once the slot of timer_finished has handled an event, the pending
\* record of the window is cleared, whatever the event's type and duration
\* and whether or not a store call raised.
C7_PendingClearedAfterFinished ==
    (RunEnded /\ run.signalled) => window = NoPending

\* C8: a row created by the slot of timer_finished carries the timer type of
\* the timer_finished event and the planned duration and start time of the
\* timer_started event of the same run, whatever starts, pauses, stops,
\* resets and type changes came before.
C8_RowBuiltFromOwnRun ==
    (RunEnded /\ run.rows = 1 /\ ~run.raised)
        => (/\ LastRow.timer_type = run.end_type
            /\ LastRow.planned_duration = run.planned
            /\ LastRow.start_time = run.start_time)

\* C9: a run that was reset while running or paused has no row and no store
\* call, at the reset and for as long as no new run has started, and the
\* reset itself leaves the store as it is.
C9_AbandonedRunLeavesNoRow ==
    /\ [](run.abandoned
            => run.rows = 0 /\ run.creates = 0 /\ run.finalizes = 0)
    /\ [][(run'.abandoned /\ ~run.abandoned)
            => (study_sessions' = study_sessions
                /\ last_rowid' = last_rowid)]_vars

\* C9 witness: the second run was abandoned; the store holds the first
\* run's row and nothing else.
C9_Witness ==
    /\ run.abandoned
    /\ run.id = 2
    /\ run.rows = 0
    /\ Len(study_sessions) = 1
    /\ widget.start_time = None

\* C11: pause outside Running, resume outside Paused, stop in Idle and
\* add_time outside Running/Paused return False, leave every field as it
\* was and emit no signal.
C11_InvalidTransitionsNoOps ==
    [][(/\ now' = now
        /\ \/ last_call'.op = "pause" /\ timer.state # "running"
           \/ last_call'.op = "resume" /\ timer.state # "paused"
           \/ last_call'.op = "stop" /\ timer.state = "idle"
           \/ last_call'.op = "add_time"
                /\ timer.state \notin {"running", "paused"})
          => (/\ last_call'.result = FALSE
              /\ timer' = timer
              /\ signals' = <<>>)]_vars

\* C11 witness: a pause refused on a paused timer that has counted time.
C11_Witness ==
    /\ last_call = [op |-> "pause", result |-> FALSE]
    /\ timer.state = "paused"
    /\ timer.elapsed_time > 0

\* C12: start(type, d) called in Idle or Finished returns True and leaves
\* the timer Running with timer_type = type, total_duration =
\* remaining_time = d, elapsed_time = 0 and total_pause_duration = 0, and the
\* call itself emits time_updated(d, d), before any tick.
C12_StartAccepted ==
    [][\A type \in TimerTypes, d \in Durations :
          (start(type, d) /\ timer.state \in {"idle", "finished"})
          => (/\ last_call' = [op |-> "start", result |-> TRUE]
              /\ timer'.state = "running"
              /\ timer'.timer_type = type
              /\ timer'.total_duration = d
              /\ timer'.remaining_time = d
              /\ timer'.elapsed_time = 0
              /\ timer'.total_pause_duration = 0
              /\ timer'.start_time = now
              /\ \E i \in 1..Len(signals') :
                    signals'[i] = time_updated(d, d))]_vars

\* C12 witness: an accepted start with the longest duration, after time has
\* passed, with its time_updated signal.
C12_Witness ==
    /\ last_call = [op |-> "start", result |-> TRUE]
    /\ timer.state = "running"
    /\ timer.total_duration = MaxDuration
    /\ now > 0
    /\ signals[2] = time_updated(MaxDuration, MaxDuration)

\* C13: stop(completed) called outside Idle returns True and emits, last,
\* timer_finished with the timer_type and elapsed_time of before the call and
\* with completed; afterwards the timer is Finished with the run's fields
\* kept when completed, and Idle with type "", total = remaining = elapsed =
\* 0 and pause accumulator 0 when not.
C13_StopEmitsAndSettles ==
    [][\A completed \in BOOLEAN :
          (stop(completed) /\ timer.state # "idle")
          => (/\ last_call' = [op |-> "stop", result |-> TRUE]
              /\ signals'[Len(signals')]
                    = timer_finished(timer.timer_type, timer.elapsed_time,
                                     completed)
              /\ IF completed
                 THEN /\ timer'.state = "finished"
                      /\ timer'.timer_type = timer.timer_type
                      /\ timer'.total_duration = timer.total_duration
                      /\ timer'.remaining_time = timer.remaining_time
                      /\ timer'.elapsed_time = timer.elapsed_time
                      /\ timer'.start_time = timer.start_time
                 ELSE /\ timer'.state = "idle"
                      /\ timer'.timer_type = ""
                      /\ timer'.total_duration = 0
                      /\ timer'.remaining_time = 0
                      /\ timer'.elapsed_time = 0
                      /\ timer'.total_pause_duration = 0)]_vars

\* C13 witness: a run that counted time was stopped early; the signal
\* carries the time it counted and the fields are cleared.
C13_Witness ==
    /\ last_call = [op |-> "stop", result |-> TRUE]
    /\ timer.state = "idle"
    /\ timer.elapsed_time = 0
    /\ signals[Len(signals)].signal = "timer_finished"
    /\ signals[Len(signals)].args[2] > 0
    /\ signals[Len(signals)].args[3] = FALSE

\* C14: after start(type, d) with d >= 1 and nothing but ticks since, the
\* timer is Running as long as fewer than d ticks were processed and is
\* Finished once the d-th was, with no stop call; the d-th tick emits
\* timer_finished(type, d, True).
C14_TickCompletion ==
    (hist.only_ticks /\ hist.d >= 1)
        => (/\ hist.ticks <= hist.d
            /\ hist.ticks < hist.d => timer.state = "running"
            /\ hist.ticks = hist.d
                 => (/\ timer.state = "finished"
                     /\ last_call.op = "tick"
                          => signals[Len(signals)]
                                = timer_finished(timer.timer_type, hist.d,
                                                 TRUE)))

\* C14 witness: a run of the longest duration right after its last tick.
C14_Witness ==
    /\ hist.only_ticks
    /\ hist.d = MaxDuration
    /\ hist.ticks = MaxDuration
    /\ last_call.op = "tick"
    /\ timer.state = "finished"

\* C15: the elapsed time a timer_finished signal carries is the number of
\* ticks the run processed while Running, and total_pause_duration is the
\* wall-clock time the run spent Paused -- with the pauses closed while
\* Running or Finished, together with the open pause while Paused, and, at
\* the moment stop emits timer_finished, with a pause still open folded in.
C15_PauseAccounting ==
    /\ [](\A i \in 1..Len(signals) :
            signals[i].signal = "timer_finished"
                => signals[i].args[2] = hist.ticks)
    /\ [](timer.state \in {"running", "finished"}
            => timer.total_pause_duration = hist.paused)
    /\ [](timer.state = "paused"
            => timer.total_pause_duration + (now - timer.pause_time)
                   = hist.paused)
    /\ [][\A completed \in BOOLEAN :
            (stop(completed) /\ timer.state # "idle")
            => stop_fields(timer, completed).total_pause_duration
                   = hist'.paused]_vars

\* C15 witness: a run that ticked, was paused for a while and was stopped
\* as completed while still paused.
C15_Witness ==
    /\ last_call = [op |-> "stop", result |-> TRUE]
    /\ timer.state = "finished"
    /\ timer.pause_time # None
    /\ hist.ticks > 0
    /\ hist.paused > 0
    /\ timer.total_pause_duration = hist.paused
    /\ signals[Len(signals)].args[2] = hist.ticks

\* C16: reset, from any state, leaves the timer Idle with every field as
\* after construction and the QTimer stopped, emits no timer_finished, and a
\* reset that follows a reset changes no field.
C16_ResetClears ==
    [][reset
          => (/\ timer' = InitTimer
              /\ ~HasFinished(signals')
              /\ last_call.op = "reset" => timer' = timer)]_vars

\* C16 witness: a reset of a run that had ticked and been paused.
C16_Witness ==
    /\ last_call.op = "reset"
    /\ timer = InitTimer
    /\ signals = <<state_changed("idle")>>
    /\ hist.ticks > 0
    /\ hist.paused > 0

\* C17: add_time(delta) in Running or Paused, for any signed delta, returns
\* True, sets remaining_time to max(0, remaining_time + delta), changes
\* total_duration by the difference actually applied, leaves elapsed_time as
\* it was, and never leaves remaining_time negative.
C17_AddTimeClamps ==
    [][\A seconds \in Deltas :
          (add_time(seconds) /\ timer.state \in {"running", "paused"})
          => (/\ last_call' = [op |-> "add_time", result |-> TRUE]
              /\ timer'.remaining_time
                    = (IF timer.remaining_time + seconds < 0 THEN 0
                       ELSE timer.remaining_time + seconds)
              /\ timer'.total_duration - timer.total_duration
                    = timer'.remaining_time - timer.remaining_time
              /\ timer'.elapsed_time = timer.elapsed_time
              /\ timer'.remaining_time >= 0)]_vars

\* C17 witness: time taken from a run that had ticked, down to nothing left,
\* its total now below the duration it was started with.
C17_Witness ==
    /\ last_call = [op |-> "add_time", result |-> TRUE]
    /\ timer.state \in {"running", "paused"}
    /\ timer.remaining_time = 0
    /\ timer.elapsed_time > 0
    /\ timer.total_duration < hist.d

\* C18: a tick delivered while the timer is Paused, Idle or Finished (a
\* timeout that arrives after the QTimer was stopped) changes no field and
\* emits no signal.
C18_TickOutsideRunningIsNoOp ==
    [][((on_timer_tick \/ late_tick) /\ timer.state # "running")
          => (timer' = timer /\ signals' = <<>>)]_vars

\* C18 witness: a late tick delivered to a paused timer that has counted
\* time.
C18_Witness ==
    /\ last_call.op = "late_tick"
    /\ timer.state = "paused"
    /\ timer.elapsed_time > 0
    /\ timer.remaining_time > 0
    /\ signals = <<>>

\* C19: in every state the QTimer of FocusTimer is active exactly when the
\* state is Running.
C19_TickSourceActiveIffRunning ==
    timer.qt_active <=> timer.state = "running"

\* C19 witness: a run resumed after a pause, its QTimer active again.
C19_Witness ==
    /\ last_call = [op |-> "resume", result |-> TRUE]
    /\ timer.state = "running"
    /\ timer.qt_active
    /\ hist.paused > 0

\* C20: within a run (from an accepted start to the next) timer_finished is
\* the last signal of the call that emits it, so that the time_updated,
\* progress_updated and state_changed signals of that call precede it, and
\* once a call of the run has emitted timer_finished no later call of the
\* run emits time_updated, progress_updated or timer_finished.
C20_FinishedIsLastEventOfRun ==
    /\ \A i \in 1..Len(signals) :
          signals[i].signal = "timer_finished" => i = Len(signals)
    /\ hist.finished_before
          => \A i \in 1..Len(signals) :
                signals[i].signal \notin {"time_updated", "progress_updated",
                                          "timer_finished"}

\* C21: every change of FocusTimer's state follows the transition graph:
\* Running is entered only by start from Idle or Finished or by resume from
\* Paused; Paused only by pause from Running; Finished only from Running or
\* Paused by a completing stop (called directly or by the tick that uses up
\* the countdown); Idle only by stop or reset.  So no step goes from Idle
\* to Paused, from Idle to Finished or from Finished to Paused.
C21_TransitionGraph ==
    [][timer'.state # timer.state =>
         /\ timer'.state = "running" =>
               \/ last_call'.op = "start" /\ timer.state \in {"idle", "finished"}
               \/ last_call'.op = "resume" /\ timer.state = "paused"
         /\ timer'.state = "paused" =>
               last_call'.op = "pause" /\ timer.state = "running"
         /\ timer'.state = "finished" =>
               /\ last_call'.op \in {"stop", "tick"}
               /\ timer.state \in {"running", "paused"}
         /\ timer'.state = "idle" => last_call'.op \in {"stop", "reset"}
         /\ ~(timer.state = "idle" /\ timer'.state \in {"paused", "finished"})
         /\ ~(timer.state = "finished" /\ timer'.state = "paused")]_vars

\* C21 witness: a finished run taken back to Idle by an accepted
\* non-completing stop.
C21_Witness ==
    /\ last_call = [op |-> "stop", result |-> TRUE]
    /\ timer.state = "idle"
    /\ hist.finished_before

\* C26: a store call that raises in MainWindow.on_timer_finished is not
\* fatal: the handler returns, it has issued at most one start_session and
\* at most one end_session for the event, and the widget is left in the
\* state that the same step leaves it in when both store calls succeed
\* (stopped, its time records cleared, switched to the next type when
\* auto_switch is set).
C26_StoreFailureNonFatal ==
    [][\A fail \in StoreFailures \ {"none"} :
         (run'.raised /\ (stop_timer(fail) \/ update_time(fail))) =>
            /\ run'.creates <= Forget(run).creates + 1
            /\ run'.finalizes <= Forget(run).finalizes + 1
            /\ run'.creates <= 1 /\ run'.finalizes <= 1
            /\ stop_timer(fail) =>
                  widget' = clear_time_records(stop_timer_fields(widget))
            /\ update_time(fail) =>
                  LET w1 == [widget EXCEPT !.remaining_seconds = @ - 1]
                      w3 == clear_time_records(stop_timer_fields(w1))
                  IN  widget' = IF auto_switch
                                THEN switch_to_next_timer_type(w3)
                                ELSE w3]_vars

\* C26 witness: a study run ended with a store call of the handler raising,
\* the widget stopped and its time records cleared.
C26_Witness ==
    /\ run.raised
    /\ run.signalled
    /\ run.type = "study"
    /\ run.creates = 1
    /\ ~widget.timer_active
    /\ widget.start_time = None

\* C27: starting the widget's timer with a type the settings do not know is
\* refused: the call leaves the widget as it was (not running, no run with
\* another type's duration) and opens no run.
C27_UnknownTypeRefused ==
    [][\A type_id \in {UnknownTypeId} :
         start_timer(type_id) =>
            /\ widget' = widget
            /\ run'.id = run.id]_vars

\* C28: every row of study_sessions written by on_timer_finished has its
\* end_time and actual_duration set, whichever store call raised.
C28_NoHalfWrittenRow ==
    \A i \in 1..Len(study_sessions) :
        /\ study_sessions[i].end_time # None
        /\ study_sessions[i].actual_duration # None

\* The daily_stats rows stored for date D, and the row that stands for a
\* date without one.
StatsOf(D) == {st \in daily_stats : st.date = D}

ZeroRow(D) ==
    [date |-> D, total_study_time |-> 0, total_rest_time |-> 0,
     session_count |-> 0, completion_rate |-> <<0, 1>>]

\* C22: after every Database operation that creates, finalizes or deletes
\* a session, the daily_stats row of each date is what _update_daily_stats
\* computes from the session rows now stored for that date; a date without
\* a row counts as all zeros.
C22_AggregateMatchesRows ==
    \A D \in Dates :
        IF StatsOf(D) = {}
        THEN daily_row(study_sessions, D) = ZeroRow(D)
        ELSE StatsOf(D) = {daily_row(study_sessions, D)}

\* C30: the date column of every session row, written by start_session or
\* by add_session_direct, is the calendar date of its start_time.
C30_DateIsDateOfStartTime ==
    \A i \in 1..Len(study_sessions) :
        study_sessions[i].date = DateOf(study_sessions[i].start_time)

\* The session rows stored under date D, those of them that are finalized
\* (actual_duration set), and the sum of f over a set of row numbers.
OnDate(D) == {i \in 1..Len(study_sessions) : study_sessions[i].date = D}

Finalized(D) == {i \in OnDate(D) : study_sessions[i].actual_duration # None}

RECURSIVE SumOver(_, _)
SumOver(f, S) ==
    IF S = {} THEN 0
    ELSE LET x == CHOOSE x \in S : TRUE
         IN  f[x] + SumOver(f, S \ {x})

\* The sum of actual_duration over the completed sessions of a type on D.
CompletedTime(D, timer_type) ==
    SumOver([i \in 1..Len(study_sessions) |->
                study_sessions[i].actual_duration],
            {i \in Finalized(D) : /\ study_sessions[i].timer_type = timer_type
                                  /\ study_sessions[i].completed})

\* C23 as stated: the row recomputed for date D has total_study_time and
\* total_rest_time equal to the sums of actual_duration over the completed
\* study and rest sessions on D, and session_count equal to the number of
\* sessions on D of all types.
C23_RecomputeTotalsAllRows ==
    last_update # None =>
        /\ StatsOf(last_update) # {}
        /\ \A st \in StatsOf(last_update) :
              /\ st.total_study_time = CompletedTime(last_update, "study")
              /\ st.total_rest_time = CompletedTime(last_update, "rest")
              /\ st.session_count = Cardinality(OnDate(last_update))

\* C23 amended: the same, with session_count equal to the number of
\* finalized sessions (rows with actual_duration set) on D of all types.
C23_RecomputeTotals ==
    last_update # None =>
        /\ StatsOf(last_update) # {}
        /\ \A st \in StatsOf(last_update) :
              /\ st.total_study_time = CompletedTime(last_update, "study")
              /\ st.total_rest_time = CompletedTime(last_update, "rest")
              /\ st.session_count = Cardinality(Finalized(last_update))

\* C23 witness: a date recomputed with two completed study sessions of
\* different durations and a finalized session of a user-defined type.
C23_Witness ==
    /\ last_update # None
    /\ \E st \in StatsOf(last_update) :
          /\ st.total_study_time = StudyDuration + RestDuration
          /\ st.total_rest_time = 0
          /\ st.session_count = 3
    /\ \E i \in Finalized(last_update) :
          /\ study_sessions[i].timer_type = "custom"
          /\ study_sessions[i].completed

RECURSIVE ProdOver(_, _)
ProdOver(f, S) ==
    IF S = {} THEN 1
    ELSE LET x == CHOOSE x \in S : TRUE
         IN  f[x] * ProdOver(f, S \ {x})

\* Whether the fraction rate is the unweighted mean, over the timer types
\* with a row in `sessions` (a set of row numbers), of the type's fraction
\* of completed rows, and 0 without such a type:
\*   rate = (SUM c[t] / n[t]) / #types, cross-multiplied.
IsMeanOfGroups(rate, sessions) ==
    LET group(t) == {i \in sessions : study_sessions[i].timer_type = t}
        types == {t \in TimerTypeIds : group(t) # {}}
        n == [t \in types |-> Cardinality(group(t))]
        c == [t \in types |->
                Cardinality({i \in group(t) : study_sessions[i].completed})]
    IN  IF types = {}
        THEN rate[1] = 0
        ELSE rate[1] * Cardinality(types) * ProdOver(n, types)
                = rate[2] * SumOver([t \in types |->
                                       c[t] * ProdOver(n, types \ {t})],
                                    types)

C25_FullReplace ==
    /\ \A D \in Dates : Cardinality(StatsOf(D)) <= 1
    /\ last_update # None =>
          update_daily_stats(study_sessions, daily_stats, last_update)
              = daily_stats

\* C25 witness: a date whose row was written, then replaced by a recompute
\* with other values (a second study session counted), next to the row of
\* the other date.
C25_Witness ==
    /\ last_update # None
    /\ \E st \in StatsOf(last_update) :
          st.session_count = 2 /\ st.total_study_time > 0
    /\ \E D \in Dates : D # last_update /\ StatsOf(D) # {}

\* C29: a step that edits or deletes a todo item (todo_items changes and
\* no item is added) leaves the session rows as they are: the same rows,
\* each with the todo_id and the todo_content it had.
C29_TodoChangeKeepsSessionCopy ==
    [][(todo_items' # todo_items /\ last_todo_id' = last_todo_id) =>
          /\ Len(study_sessions') = Len(study_sessions)
          /\ \A i \in 1..Len(study_sessions) :
                /\ study_sessions'[i].id = study_sessions[i].id
                /\ study_sessions'[i].todo_id = study_sessions[i].todo_id
                /\ study_sessions'[i].todo_content
                      = study_sessions[i].todo_content]_vars

\* C29 witness: a session that still carries the id and the content it
\* copied from a todo item that has since been deleted.
C29_Witness ==
    \E i \in 1..Len(study_sessions) :
        /\ study_sessions[i].todo_id # None
        /\ study_sessions[i].todo_content \in Contents
        /\ ~\E item \in todo_items : item.id = study_sessions[i].todo_id

\* C31: once a call of a run has emitted timer_finished, no later call emits
\* it again and TimerManager calls end_session no more, until a start is
\* accepted: a step taken after the finished event of a run that is not an
\* accepted start emits no timer_finished and makes no end_session call.
C31_OneFinishedEventPerRun ==
    [][((hist.finished_before \/ HasFinished(signals))
          /\ (\/ manager_pause_timer
              \/ manager_resume_timer
              \/ \E completed \in BOOLEAN : manager_stop_timer(completed)
              \/ manager_on_timer_tick))
       => /\ ~HasFinished(signals')
          /\ last_update' = None]_vars

\* C36: a TimerManager.start_timer that returns False (the timer is running
\* or paused) leaves the store as it is: no row is added to study_sessions.
C36_RefusedStartLeavesStore ==
    [][(/\ last_call'.op = "start"
        /\ ~last_call'.result
        /\ \E timer_type \in TimerTypes :
              manager_start_timer(timer_type,
                                  get_timer_type_duration(timer_type)))
       => UNCHANGED <<study_sessions, last_rowid>>]_vars

\* C37: when a run under TimerManager emits its finished event, the
\* actual_duration end_session writes to the run's row is the elapsed_time
\* the timer_finished signal carries (the seconds counted while running).
C37_ActualDurationIsElapsedTime ==
    [][(/\ ~hist.finished_before
        /\ ~HasFinished(signals)
        /\ HasFinished(signals')
        /\ last_update' # None)
       => \A i \in 1..Len(study_sessions') :
             study_sessions'[i].id = timer.session_id
                => study_sessions'[i].actual_duration
                      = signals'[Len(signals')].args[2]]_vars

\* C33: while the run that the last accepted start opened with a duration
\* d >= 0 is the timer's run, the counters stay in range:
\* remaining_time >= 0 and 0 <= elapsed_time <= total_duration, so that
\* progress is between 0 and 1.
C33_CountersInRange ==
    hist.d >= 0 =>
        /\ timer.remaining_time >= 0
        /\ timer.elapsed_time >= 0
        /\ timer.elapsed_time <= timer.total_duration

\* C35: pause, resume, add_time and the tick handler leave the timer's
\* start_time and timer_type as they are; start_time is set only by an
\* accepted start, and cleared only by reset or by a stop that does not
\* complete the run.
C35_StartTimeAndTypeFrame ==
    [][/\ last_call'.op \in {"pause", "resume", "add_time", "tick",
                             "late_tick"}
          => /\ timer'.start_time = timer.start_time
             /\ timer'.timer_type = timer.timer_type
       /\ (timer'.start_time # timer.start_time /\ timer'.start_time # None)
          => (last_call'.op = "start" /\ last_call'.result)
       /\ (timer'.start_time # timer.start_time /\ timer'.start_time = None)
          => \/ last_call'.op = "reset"
             \/ last_call'.op = "stop" /\ timer'.state = "idle"]_vars

\* C35 witness: a run resumed after a second in pause and ticked since,
\* still with the start_time of its start.
C35_Witness ==
    /\ timer.state = "running"
    /\ last_call.op = "tick"
    /\ hist.paused > 0
    /\ timer.start_time # None
    /\ timer.start_time < now - 1

\* C39: in every state of TimerWidget is_running and is_paused are not both
\* true, and the widget's QTimer is active exactly when is_running is true.
C39_WidgetFlagsConsistent ==
    /\ ~(widget.is_running /\ widget.is_paused)
    /\ widget.timer_active <=> widget.is_running

\* C39 witness: a run paused after its first tick: is_paused set,
\* is_running cleared, the QTimer stopped.
C39_Witness ==
    /\ widget.is_paused
    /\ ~widget.is_running
    /\ ~widget.timer_active
    /\ widget.start_time # None
    /\ widget.remaining_seconds < widget.total_seconds

\* The timer_type_stats rows of a type and date, and the finalized sessions
\* of a type stored under a date.
TypeStatsOf(timer_type, D) ==
    {st \in timer_type_stats : st.timer_type = timer_type /\ st.date = D}

FinalizedOfType(timer_type, D) ==
    {i \in Finalized(D) : study_sessions[i].timer_type = timer_type}

\* C38: the timer_type_stats row of (type, D) reports the finalized
\* sessions of the type now stored for D: usage_count is their number and
\* total_time the completed time among them; when there is none, no row of
\* (type, D) reports a usage.
C38_TypeStatsMatchRows ==
    \A timer_type \in TimerTypeIds, D \in Dates :
        \A st \in TypeStatsOf(timer_type, D) :
            /\ st.usage_count
                  = Cardinality(FinalizedOfType(timer_type, D))
            /\ st.total_time = CompletedTime(D, timer_type)

\* C32: when a listener of timer_finished calls start(type, d) while
\* stop(completed=False) delivers the signal, the new run is intact when stop
\* returns: the timer is Running with timer_type = type, total_duration =
\* remaining_time = d and elapsed_time = 0.
C32_ReentrantStartIntact ==
    [][\A timer_type \in TimerTypes, duration \in Durations :
          stop_with_start_in_listener(FALSE, timer_type, duration)
             => /\ timer'.state = "running"
                /\ timer'.timer_type = timer_type
                /\ timer'.total_duration = duration
                /\ timer'.remaining_time = duration
                /\ timer'.elapsed_time = 0]_vars

\* C34: when from some moment on nothing is called on FocusTimer and only
\* timeouts arrive (and time passes), the timer does not stay Running:
\* a tick takes it out of Running, into Finished, with
\* timer_finished(type, elapsed, True) as the last signal -- also when the
\* tick finds remaining_time already at 0 or below (after add_time, or a
\* start with duration 0).
C34_TicksFinishTheRun ==
    /\ [][(timer.state = "running" /\ timer'.state # "running"
             /\ last_call'.op = "tick")
          => /\ timer'.state = "finished"
             /\ signals' # <<>>
             /\ signals'[Len(signals')]
                   = timer_finished(timer.timer_type,
                                    timer.elapsed_time + 1, TRUE)]_vars
    /\ <>[][on_timer_tick \/ late_tick \/ TimerTimePasses]_vars
          => <>[](timer.state # "running")

\* C34 witness: a run finished by the tick that found remaining_time at 0.
C34_Witness ==
    /\ timer.state = "finished"
    /\ last_call.op = "tick"
    /\ timer.remaining_time = -1
    /\ signals # <<>>
    /\ signals[Len(signals)].signal = "timer_finished"



=============================================================================
